---- MODULE Spec2Model ----
(***************************************************************************)
(* State machine of the snake game of src/src/components/SnakeGame.tsx.    *)
(*                                                                         *)
(* The React component keeps the game in useState cells; every handler     *)
(* (the interval callback moveSnake, the keydown and touch listeners, the  *)
(* Pause and Play Again buttons) runs to completion on the single event    *)
(* loop and is one action here.  A handler reads the values of the render  *)
(* that created it: generateFood tests the snake of that render, which is  *)
(* the snake BEFORE the handler's own setSnake takes effect.               *)
(*                                                                         *)
(* The board of the program is 20 x 20 with the first head at (10,10) and  *)
(* the first food at (5,5).  The model keeps the same geometry on a        *)
(* smaller board: gridSize is a bound, and the two start cells sit at the  *)
(* same fractions of it (1/2 and 1/4), so that at gridSize = 20 they are   *)
(* the literals of the source.                                             *)
(***************************************************************************)
EXTENDS Integers, Sequences, FiniteSets

\* snake .. touchStart are the useState cells of the component.  hung is
\* true once a handler is stuck in the do-while of generateFood (the event
\* loop is blocked, nothing runs after it).  last records what the latest
\* step was: a tick by its outcome ("noop", "wall", "self", "eat", "move"),
\* "input" for a listener or the Pause button, "reset" for Play Again,
\* "elapse" for time passing.
VARIABLES snake, food, direction, gameOver, score, isPaused, isGameStarted,
          touchStart, hung, last

\* History and environment, written by the specifications and by no handler.
\* req: the direction the latest step submitted ("null" when it submitted
\* none).  acc: the latest submitted direction the acceptance rule let
\* through.  pending: how many were let through since the last effective
\* tick (2 stands for two or more).  several: the latest step was a tick
\* that came after two or more of them.  timer: the time left until the
\* interval of the game loop fires.  quiet: the player has let go, from now
\* on only the interval runs.  ticks: the calls of moveSnake since then.
VARIABLES req, acc, pending, several, timer, quiet, ticks

game == <<snake, food, direction, gameOver, score, isPaused, isGameStarted,
          touchStart, hung, last>>

intents == <<req, acc, pending, several>>

unattended == <<quiet, ticks>>

vars == <<game, intents, timer, unattended>>

\* ---------------------------------------------------------------- bounds
\* side of the board (20 in the source, line 29)
gridSize == 3

\* longest snake the general specification lets grow
MaxLen == 4

\* the time that passes in one step of the clock
TimeStep == 50

\* ------------------------------------------------------------- constants
minSwipeDistance == 30

\* setInterval(moveSnake, 150)
Interval == 150

\* -------------------------------------------------------------- geometry
\* mutant of Coord: Math.round for Math.floor, which also yields gridSize
Coord_OffByOne == 0 .. gridSize

\* Math.floor(Math.random() * gridSize)
Coord == 0 .. (gridSize - 1)

Cells == Coord \X Coord

\* useState<Position[]>([{ x: 10, y: 10 }]) on the 20-board
InitHead == <<gridSize \div 2, gridSize \div 2>>

\* useState<Position>({ x: 5, y: 5 }) on the 20-board
InitFood == <<gridSize \div 4, gridSize \div 4>>

Direction == {"UP", "DOWN", "LEFT", "RIGHT"}

NoDirection == "null"

\* mutant of MoveHead: the y axis upside down
MoveHead_FlippedY(h, d) ==
    CASE d = "UP"    -> <<h[1], h[2] + 1>>
      [] d = "DOWN"  -> <<h[1], h[2] - 1>>
      [] d = "LEFT"  -> <<h[1] - 1, h[2]>>
      [] d = "RIGHT" -> <<h[1] + 1, h[2]>>
      [] OTHER       -> h

\* the switch of moveSnake: the head moved one cell in direction d
MoveHead(h, d) ==
    CASE d = "UP"    -> <<h[1], h[2] - 1>>
      [] d = "DOWN"  -> <<h[1], h[2] + 1>>
      [] d = "LEFT"  -> <<h[1] - 1, h[2]>>
      [] d = "RIGHT" -> <<h[1] + 1, h[2]>>
      [] OTHER       -> h

\* mutant of OutOfBounds: > for >= on the far edges
OutOfBounds_OffByOne(h) ==
    h[1] < 0 \/ h[1] > gridSize \/ h[2] < 0 \/ h[2] > gridSize

\* the boundary test of moveSnake
OutOfBounds(h) ==
    h[1] < 0 \/ h[1] >= gridSize \/ h[2] < 0 \/ h[2] >= gridSize

\* Array.prototype.slice(n): the elements from index n (0-based) on
Slice(s, n) == SubSeq(s, n + 1, Len(s))

\* s.some(segment => segment.x === c.x && segment.y === c.y)
Some(s, c) == \E i \in 1 .. Len(s) : s[i] = c

\* first index of the self-collision test of moveSnake: newSnake.slice(3)
CollisionFrom == 3

SelfCollision(s, h) == Some(Slice(s, CollisionFrom), h)

\* mutant of Pop: the tail is never dropped
Pop_Nothing(s) == s

\* newSnake.pop(): all but the last element
Pop(s) == SubSeq(s, 1, Len(s) - 1)

\* mutant of Unshift: push for unshift
Unshift_AtEnd(s, h) == s \o <<h>>

\* newSnake.unshift(head)
Unshift(s, h) == <<h>> \o s

\* the cells on which the do-while of generateFood stops, given the snake
\* its closure holds
FoodChoices(closureSnake) == {c \in Cells : ~Some(closureSnake, c)}

\* ------------------------------------------------------------------ Init
Init ==
    /\ snake = <<InitHead>>
    /\ food = InitFood
    /\ direction = NoDirection
    /\ gameOver = FALSE
    /\ score = 0
    /\ isPaused = FALSE
    /\ isGameStarted = FALSE
    /\ touchStart = "null"
    /\ hung = FALSE
    /\ last = "init"
    /\ req = NoDirection
    /\ acc = NoDirection
    /\ pending = 0
    /\ several = FALSE
    /\ timer = Interval
    /\ quiet = FALSE
    /\ ticks = 0

\* -------------------------------------------------------------- moveSnake
\* the interval callback: one tick.  The updater passed to setSnake reads
\* direction and food of the render that created the callback, and calls
\* generateFood of that render, whose closure holds the snake before the move.
\* mutant of TickRunning: the guard without isPaused
TickRunning_IgnoresPause ==
    ~(gameOver \/ ~isGameStarted \/ direction = NoDirection)

\* the guard of moveSnake: the tick goes on past the early return
TickRunning ==
    ~(gameOver \/ isPaused \/ ~isGameStarted \/ direction = NoDirection)

TickNoop ==
    /\ ~hung
    /\ ~TickRunning
    /\ last' = "noop"
    /\ UNCHANGED <<snake, food, direction, gameOver, score, isPaused,
                   isGameStarted, touchStart, hung>>

TickWall ==
    /\ ~hung
    /\ TickRunning
    /\ OutOfBounds(MoveHead(snake[1], direction))
    /\ gameOver' = TRUE
    /\ last' = "wall"
    /\ UNCHANGED <<snake, food, direction, score, isPaused, isGameStarted,
                   touchStart, hung>>

TickSelf ==
    /\ ~hung
    /\ TickRunning
    /\ ~OutOfBounds(MoveHead(snake[1], direction))
    /\ SelfCollision(snake, MoveHead(snake[1], direction))
    /\ gameOver' = TRUE
    /\ last' = "self"
    /\ UNCHANGED <<snake, food, direction, score, isPaused, isGameStarted,
                   touchStart, hung>>

TickEat(cap) ==
    LET head == MoveHead(snake[1], direction) IN
    /\ ~hung
    /\ TickRunning
    /\ ~OutOfBounds(head)
    /\ ~SelfCollision(snake, head)
    /\ head = food
    /\ Len(snake) < cap
    /\ IF FoodChoices(snake) # {}
       THEN /\ \E newFood \in FoodChoices(snake) : food' = newFood
            /\ score' = score + 1
            /\ snake' = Unshift(snake, head)
            /\ last' = "eat"
            /\ UNCHANGED hung
       ELSE /\ hung' = TRUE
            /\ last' = "eat_hang"
            /\ UNCHANGED <<snake, food, score>>
    /\ UNCHANGED <<direction, gameOver, isPaused, isGameStarted, touchStart>>

TickMove ==
    LET head == MoveHead(snake[1], direction) IN
    /\ ~hung
    /\ TickRunning
    /\ ~OutOfBounds(head)
    /\ ~SelfCollision(snake, head)
    /\ head # food
    /\ snake' = Unshift(Pop(snake), head)
    /\ last' = "move"
    /\ UNCHANGED <<food, direction, gameOver, score, isPaused, isGameStarted,
                   touchStart, hung>>

moveSnake(cap) ==
    TickNoop \/ TickWall \/ TickSelf \/ TickEat(cap) \/ TickMove

\* ---------------------------------------------------------- handleKeyPress
Keys == {"ArrowUp", "ArrowDown", "ArrowLeft", "ArrowRight", " ", "a"}

\* the key events the model enumerates: <<e.key, a button has the focus>>
KeyEvents == {<<key, FALSE>> : key \in Keys} \cup {<<" ", TRUE>>}

\* e.code === "Space"
IsSpace(key) == key = " "

\* mutant of KeyDirection: the arrow is never refused
KeyDirection_NoReverseCheck(key, dir, started) ==
    CASE key = "ArrowUp"    -> "UP"
      [] key = "ArrowDown"  -> "DOWN"
      [] key = "ArrowLeft"  -> "LEFT"
      [] key = "ArrowRight" -> "RIGHT"
      [] OTHER -> NoDirection

\* the switch on e.key: the new direction, or null when the key is no arrow
\* or the arrow is refused
KeyDirection(key, dir, started) ==
    CASE key = "ArrowUp"    /\ (~started \/ dir # "DOWN")  -> "UP"
      [] key = "ArrowDown"  /\ (~started \/ dir # "UP")    -> "DOWN"
      [] key = "ArrowLeft"  /\ (~started \/ dir # "RIGHT") -> "LEFT"
      [] key = "ArrowRight" /\ (~started \/ dir # "LEFT")  -> "RIGHT"
      [] OTHER -> NoDirection

\* mutant of Accept: an intent does not replace one that still waits for
\* its tick
Accept_KeepFirst(newDirection) ==
    IF newDirection # NoDirection /\ pending = 0
    THEN /\ direction' = newDirection
         /\ isGameStarted' = TRUE
    ELSE UNCHANGED <<direction, isGameStarted>>

\* mutant of Accept: without setIsGameStarted(true)
Accept_NoStart(newDirection) ==
    IF newDirection # NoDirection
    THEN /\ direction' = newDirection
         /\ UNCHANGED isGameStarted
    ELSE UNCHANGED <<direction, isGameStarted>>

\* if (newDirection) { setDirection(newDirection); if (!isGameStarted) ... }
Accept(newDirection) ==
    IF newDirection # NoDirection
    THEN /\ direction' = newDirection
         /\ isGameStarted' = TRUE
    ELSE UNCHANGED <<direction, isGameStarted>>

\* mutant of handleKeyPress: without the return on gameOver
handleKeyPress_NoOverCheck(key, buttonFocused) ==
    /\ ~hung
    /\ last' = "input"
    /\ UNCHANGED <<snake, food, gameOver, score, touchStart, hung>>
    /\ IF IsSpace(key) /\ ~buttonFocused
       THEN /\ isPaused' = ~isPaused
            /\ UNCHANGED <<direction, isGameStarted>>
       ELSE IF isPaused
       THEN UNCHANGED <<direction, isPaused, isGameStarted>>
       ELSE /\ Accept(KeyDirection(key, direction, isGameStarted))
            /\ UNCHANGED isPaused

handleKeyPress(key, buttonFocused) ==
    /\ ~hung
    /\ last' = "input"
    /\ UNCHANGED <<snake, food, gameOver, score, touchStart, hung>>
    /\ IF gameOver
       THEN UNCHANGED <<direction, isPaused, isGameStarted>>
       ELSE IF IsSpace(key) /\ ~buttonFocused
       THEN /\ isPaused' = ~isPaused
            /\ UNCHANGED <<direction, isGameStarted>>
       ELSE IF isPaused
       THEN UNCHANGED <<direction, isPaused, isGameStarted>>
       ELSE /\ Accept(KeyDirection(key, direction, isGameStarted))
            /\ UNCHANGED isPaused

\* ------------------------------------------------------- touch listeners
\* clientX / clientY of the touches the model enumerates
TouchStarts == {<<100, 100>>}

\* one swipe per direction, one shorter than minSwipeDistance and one diagonal
TouchEnds == {<<50, 110>>, <<140, 110>>, <<100, 60>>, <<100, 150>>,
              <<100, 110>>, <<140, 60>>}

Abs(n) == IF n < 0 THEN -n ELSE n

\* the branches of handleTouchEnd that choose newDirection
SwipeDirection(deltaX, deltaY, dir, started) ==
    IF Abs(deltaX) > Abs(deltaY)
    THEN IF deltaX > 0 /\ (dir # "LEFT" \/ ~started) THEN "RIGHT"
         ELSE IF deltaX < 0 /\ (dir # "RIGHT" \/ ~started) THEN "LEFT"
         ELSE NoDirection
    ELSE IF deltaY > 0 /\ (dir # "UP" \/ ~started) THEN "DOWN"
         ELSE IF deltaY < 0 /\ (dir # "DOWN" \/ ~started) THEN "UP"
         ELSE NoDirection

handleTouchStart(touch) ==
    /\ ~hung
    /\ touchStart' = touch
    /\ last' = "input"
    /\ UNCHANGED <<snake, food, direction, gameOver, score, isPaused,
                   isGameStarted, hung>>

\* mutant of handleTouchEnd: without the return on isPaused
handleTouchEnd_NoPauseCheck(touch) ==
    /\ ~hung
    /\ last' = "input"
    /\ UNCHANGED <<snake, food, gameOver, score, isPaused, hung>>
    /\ IF touchStart = "null" \/ gameOver
       THEN UNCHANGED <<direction, isGameStarted, touchStart>>
       ELSE LET deltaX == touch[1] - touchStart[1]
                deltaY == touch[2] - touchStart[2]
            IN  IF Abs(deltaX) < minSwipeDistance /\ Abs(deltaY) < minSwipeDistance
                THEN UNCHANGED <<direction, isGameStarted, touchStart>>
                ELSE /\ Accept(SwipeDirection(deltaX, deltaY, direction, isGameStarted))
                     /\ touchStart' = "null"

handleTouchEnd(touch) ==
    /\ ~hung
    /\ last' = "input"
    /\ UNCHANGED <<snake, food, gameOver, score, isPaused, hung>>
    /\ IF touchStart = "null" \/ gameOver \/ isPaused
       THEN UNCHANGED <<direction, isGameStarted, touchStart>>
       ELSE LET deltaX == touch[1] - touchStart[1]
                deltaY == touch[2] - touchStart[2]
            IN  IF Abs(deltaX) < minSwipeDistance /\ Abs(deltaY) < minSwipeDistance
                THEN UNCHANGED <<direction, isGameStarted, touchStart>>
                ELSE /\ Accept(SwipeDirection(deltaX, deltaY, direction, isGameStarted))
                     /\ touchStart' = "null"

\* ----------------------------------------------------------------- buttons
\* onClick of the Pause / Resume button, rendered in every state
PauseButton ==
    /\ ~hung
    /\ isPaused' = ~isPaused
    /\ last' = "input"
    /\ UNCHANGED <<snake, food, direction, gameOver, score, isGameStarted,
                   touchStart, hung>>

\* mutant of resetGame: without setIsPaused(false)
resetGame_KeepsPause ==
    /\ ~hung
    /\ gameOver
    /\ IF FoodChoices(snake) # {}
       THEN /\ \E newFood \in FoodChoices(snake) : food' = newFood
            /\ snake' = <<InitHead>>
            /\ direction' = NoDirection
            /\ gameOver' = FALSE
            /\ score' = 0
            /\ isGameStarted' = FALSE
            /\ last' = "reset"
            /\ UNCHANGED <<hung, isPaused>>
       ELSE /\ hung' = TRUE
            /\ last' = "reset_hang"
            /\ UNCHANGED <<snake, food, direction, gameOver, score, isPaused,
                           isGameStarted>>
    /\ UNCHANGED touchStart

\* onClick of Play Again, rendered only while gameOver.  generateFood is the
\* one of the current render: it tests the snake the game ended with.
resetGame ==
    /\ ~hung
    /\ gameOver
    /\ IF FoodChoices(snake) # {}
       THEN /\ \E newFood \in FoodChoices(snake) : food' = newFood
            /\ snake' = <<InitHead>>
            /\ direction' = NoDirection
            /\ gameOver' = FALSE
            /\ score' = 0
            /\ isPaused' = FALSE
            /\ isGameStarted' = FALSE
            /\ last' = "reset"
            /\ UNCHANGED hung
       ELSE /\ hung' = TRUE
            /\ last' = "reset_hang"
            /\ UNCHANGED <<snake, food, direction, gameOver, score, isPaused,
                           isGameStarted>>
    /\ UNCHANGED touchStart

\* --------------------------------------------------------- specifications
Input ==
    \/ \E e \in KeyEvents : handleKeyPress(e[1], e[2])
    \/ \E touch \in TouchStarts : handleTouchStart(touch)
    \/ \E touch \in TouchEnds : handleTouchEnd(touch)
    \/ PauseButton
    \/ resetGame

\* the game with time and history left out: a tick or an input at any moment
Next ==
    \/ TickNoop /\ UNCHANGED <<intents, timer, unattended>>
    \/ TickWall /\ UNCHANGED <<intents, timer, unattended>>
    \/ TickSelf /\ UNCHANGED <<intents, timer, unattended>>
    \/ TickEat(MaxLen) /\ UNCHANGED <<intents, timer, unattended>>
    \/ TickMove /\ UNCHANGED <<intents, timer, unattended>>
    \/ \E e \in KeyEvents :
          handleKeyPress(e[1], e[2]) /\ UNCHANGED <<intents, timer, unattended>>
    \/ \E touch \in TouchStarts :
          handleTouchStart(touch) /\ UNCHANGED <<intents, timer, unattended>>
    \/ \E touch \in TouchEnds :
          handleTouchEnd(touch) /\ UNCHANGED <<intents, timer, unattended>>
    \/ PauseButton /\ UNCHANGED <<intents, timer, unattended>>
    \/ resetGame /\ UNCHANGED <<intents, timer, unattended>>

Spec == Init /\ [][Next]_vars

\* the same program played with the arrow keys alone (no pause, no touch),
\* the snake free to grow until the board is full
ArrowKeys == {"ArrowUp", "ArrowDown", "ArrowLeft", "ArrowRight"}

FillLen == gridSize * gridSize

NextFill ==
    \/ TickNoop /\ UNCHANGED <<intents, timer, unattended>>
    \/ TickWall /\ UNCHANGED <<intents, timer, unattended>>
    \/ TickSelf /\ UNCHANGED <<intents, timer, unattended>>
    \/ TickEat(FillLen) /\ UNCHANGED <<intents, timer, unattended>>
    \/ TickMove /\ UNCHANGED <<intents, timer, unattended>>
    \/ \E key \in ArrowKeys :
          handleKeyPress(key, FALSE) /\ UNCHANGED <<intents, timer, unattended>>
    \/ resetGame /\ UNCHANGED <<intents, timer, unattended>>

SpecFill == Init /\ [][NextFill]_vars

\* ---------------------------------------------------- observed intents
\* The same program with the intents it is given written down beside it.
\* An intent is what the input means before any state is read: the arrow
\* of a key, or the direction of a swipe that has a start point and is at
\* least minSwipeDistance long on one axis.

\* the direction an arrow key asks for
KeyIntent(key) ==
    CASE key = "ArrowUp"    -> "UP"
      [] key = "ArrowDown"  -> "DOWN"
      [] key = "ArrowLeft"  -> "LEFT"
      [] key = "ArrowRight" -> "RIGHT"
      [] OTHER -> NoDirection

\* the direction a touch end asks for: dominant axis and sign of the delta;
\* equal deltas count as vertical
SwipeIntent(touch) ==
    IF touchStart = "null" THEN NoDirection
    ELSE LET deltaX == touch[1] - touchStart[1]
             deltaY == touch[2] - touchStart[2]
         IN  IF Abs(deltaX) < minSwipeDistance /\ Abs(deltaY) < minSwipeDistance
             THEN NoDirection
             ELSE IF Abs(deltaX) > Abs(deltaY)
             THEN (IF deltaX > 0 THEN "RIGHT" ELSE "LEFT")
             ELSE (IF deltaY > 0 THEN "DOWN" ELSE "UP")

Opposite(d) ==
    CASE d = "UP"    -> "DOWN"
      [] d = "DOWN"  -> "UP"
      [] d = "LEFT"  -> "RIGHT"
      [] d = "RIGHT" -> "LEFT"
      [] OTHER       -> NoDirection

\* the acceptance rule of both listeners: not over, not paused, and not the
\* reverse of the heading once the game has started
Accepted(d) ==
    /\ d # NoDirection
    /\ ~gameOver
    /\ ~isPaused
    /\ (~isGameStarted \/ d # Opposite(direction))

\* The claims about intents are about the heading, not about growth: the
\* snake grows as far as every branch of moveSnake needs, which is one
\* segment more than the self-collision test skips.
IntentLen == CollisionFrom + 1

\* a step was given intent d (NoDirection: a tick, a button, a key that is
\* no arrow, a touch that is no swipe)
Asked(d) ==
    /\ req' = d
    /\ UNCHANGED <<acc, pending, several, timer, unattended>>

NextIntent ==
    \/ TickNoop /\ Asked(NoDirection)
    \/ TickWall /\ Asked(NoDirection)
    \/ TickSelf /\ Asked(NoDirection)
    \/ TickEat(IntentLen) /\ Asked(NoDirection)
    \/ TickMove /\ Asked(NoDirection)
    \/ \E e \in KeyEvents :
          handleKeyPress(e[1], e[2]) /\ Asked(KeyIntent(e[1]))
    \/ \E touch \in TouchStarts :
          handleTouchStart(touch) /\ Asked(NoDirection)
    \/ \E touch \in TouchEnds :
          handleTouchEnd(touch) /\ Asked(SwipeIntent(touch))
    \/ PauseButton /\ Asked(NoDirection)
    \/ resetGame /\ Asked(NoDirection)

SpecIntent == Init /\ [][NextIntent]_vars

\* ------------------------------------------------- intents between ticks
\* The same program with the accepted intents counted between the ticks.

\* a listener or button ran and was given intent d (NoDirection: none)
Submit(d) ==
    /\ acc' = IF Accepted(d) THEN d ELSE acc
    /\ pending' = IF Accepted(d)
                  THEN (IF pending = 0 THEN 1 ELSE 2)
                  ELSE pending
    /\ several' = FALSE
    /\ UNCHANGED <<req, timer, unattended>>

\* the interval callback ran; effective: it got past its early return
Ticked(effective) ==
    /\ pending' = IF effective THEN 0 ELSE pending
    /\ several' = (effective /\ pending = 2)
    /\ UNCHANGED <<req, acc, timer, unattended>>

\* Play Again: nothing is pending in the new game
Forgotten ==
    /\ acc' = NoDirection
    /\ pending' = 0
    /\ several' = FALSE
    /\ UNCHANGED <<req, timer, unattended>>

NextQueue ==
    \/ TickNoop /\ Ticked(FALSE)
    \/ TickWall /\ Ticked(TRUE)
    \/ TickSelf /\ Ticked(TRUE)
    \/ TickEat(IntentLen) /\ Ticked(TRUE)
    \/ TickMove /\ Ticked(TRUE)
    \/ \E e \in KeyEvents :
          handleKeyPress(e[1], e[2]) /\ Submit(KeyIntent(e[1]))
    \/ \E touch \in TouchStarts :
          handleTouchStart(touch) /\ Submit(NoDirection)
    \/ \E touch \in TouchEnds :
          handleTouchEnd(touch) /\ Submit(SwipeIntent(touch))
    \/ PauseButton /\ Submit(NoDirection)
    \/ resetGame /\ Forgotten

SpecQueue == Init /\ [][NextQueue]_vars

\* -------------------------------------------------------- the game loop
\* The same program with the clock of its interval.  The effect of the game
\* loop depends on moveSnake, and moveSnake is a new function whenever one
\* of its dependencies has a new value: direction, food, gameOver, isPaused
\* or, through generateFood, snake.  The effect then clears the interval
\* and sets a new one, which waits the whole Interval again.

\* the values the identity of moveSnake depends on
LoopDeps == <<direction, food, gameOver, snake, isPaused>>

\* a handler ran: the interval is set anew iff moveSnake is a new function
Rerendered ==
    /\ timer' = IF LoopDeps' # LoopDeps THEN Interval ELSE timer
    /\ UNCHANGED <<intents, unattended>>

\* the interval fired and called moveSnake; it fires again Interval later,
\* set anew or not
Fired ==
    /\ timer = 0
    /\ timer' = Interval
    /\ UNCHANGED <<intents, unattended>>

\* time passes while no handler runs
Elapse ==
    /\ ~hung
    /\ timer > 0
    /\ timer' = IF timer > TimeStep THEN timer - TimeStep ELSE 0
    /\ last' = "elapse"
    /\ UNCHANGED <<snake, food, direction, gameOver, score, isPaused,
                   isGameStarted, touchStart, hung, intents, unattended>>

NextTimer ==
    \/ Elapse
    \/ TickNoop /\ Fired
    \/ TickWall /\ Fired
    \/ TickSelf /\ Fired
    \/ TickEat(MaxLen) /\ Fired
    \/ TickMove /\ Fired
    \/ \E e \in KeyEvents : handleKeyPress(e[1], e[2]) /\ Rerendered
    \/ \E touch \in TouchStarts : handleTouchStart(touch) /\ Rerendered
    \/ \E touch \in TouchEnds : handleTouchEnd(touch) /\ Rerendered
    \/ PauseButton /\ Rerendered
    \/ resetGame /\ Rerendered

SpecTimer == Init /\ [][NextTimer]_vars

\* ------------------------------------------------------ the game let alone
\* The game played with the arrow keys until the player lets go of a
\* running game; from then on the interval is all that runs, and it keeps
\* running.  While played the snake grows up to FillLen.  Left alone it
\* runs straight and is at the wall within gridSize ticks, each of which
\* may eat: no length it can then have is refused.
UnattendedLen == FillLen + gridSize

\* a handler ran while the player still plays
Attended ==
    /\ ~quiet
    /\ UNCHANGED <<intents, timer, unattended>>

\* the player lets go of a started game that is neither paused nor over
LetGo ==
    /\ ~quiet
    /\ ~hung
    /\ isGameStarted /\ ~isPaused /\ ~gameOver
    /\ quiet' = TRUE
    /\ ticks' = 0
    /\ UNCHANGED <<game, intents, timer>>

\* the interval called moveSnake after the player let go (counted up to
\* gridSize calls)
Counted ==
    /\ quiet
    /\ ticks' = IF ticks < gridSize THEN ticks + 1 ELSE ticks
    /\ UNCHANGED <<quiet, intents, timer>>

\* setInterval goes on calling moveSnake
UnattendedTick ==
    /\ (TickNoop \/ TickWall \/ TickSelf \/ TickEat(UnattendedLen) \/ TickMove)
    /\ Counted

NextUnattended ==
    \/ TickNoop /\ Attended
    \/ TickWall /\ Attended
    \/ TickSelf /\ Attended
    \/ TickEat(FillLen) /\ Attended
    \/ TickMove /\ Attended
    \/ \E key \in ArrowKeys : handleKeyPress(key, FALSE) /\ Attended
    \/ LetGo
    \/ TickNoop /\ Counted
    \/ TickWall /\ Counted
    \/ TickSelf /\ Counted
    \/ TickEat(UnattendedLen) /\ Counted
    \/ TickMove /\ Counted

SpecUnattended ==
    Init /\ [][NextUnattended]_vars /\ WF_vars(UnattendedTick)

\* ====================================================================
\* The claims.  What a claim says about cells and moves is written here
\* from the claim, not through the operators of the model.
\* ====================================================================

\* the step is one call of moveSnake
IsTickStep == last' \in {"noop", "wall", "self", "eat", "move", "eat_hang"}

\* "effective tick": started, not paused, not over
Effective == isGameStarted /\ ~isPaused /\ ~gameOver

\* candidate head: UP y-1, DOWN y+1, LEFT x-1, RIGHT x+1
Candidate ==
    LET h == snake[1] IN
    IF direction = "UP" THEN <<h[1], h[2] - 1>>
    ELSE IF direction = "DOWN" THEN <<h[1], h[2] + 1>>
    ELSE IF direction = "LEFT" THEN <<h[1] - 1, h[2]>>
    ELSE <<h[1] + 1, h[2]>>

InGrid(c) == c[1] \in 0 .. (gridSize - 1) /\ c[2] \in 0 .. (gridSize - 1)

OnSnake(c) == \E i \in DOMAIN snake : snake[i] = c

\* the candidate head lies on a segment that stays after the move: any
\* segment when the tick eats, any but the last otherwise
HitsRemaining ==
    \E i \in DOMAIN snake :
        /\ snake[i] = Candidate
        /\ (Candidate = food \/ i < Len(snake))

\* C1: after every food placement (an eating tick, a reset) the food cell
\* is on no segment of the snake as it is after that operation.
C1_FoodOffSnake ==
    last \in {"eat", "reset"} => ~OnSnake(food)

\* C2: an effective tick whose candidate head is inside the grid and on a
\* segment that stays after the move sets gameOver and keeps the snake,
\* whatever the index of that segment.
C2_SelfCollisionEndsGame ==
    [][(IsTickStep /\ Effective /\ InGrid(Candidate) /\ HitsRemaining)
        => (gameOver' /\ snake' = snake)]_vars

\* C3: once started, with two segments or more, no tick moves the head
\* onto the cell of the segment at index 1.
C3_NoReversal ==
    [][(IsTickStep /\ isGameStarted /\ Len(snake) >= 2 /\ snake' # snake)
        => snake'[1] # snake[2]]_vars

\* C4: food placement always completes: no call of generateFood finds every
\* cell refused, so no handler is left looping.
C4_PlacementCompletes == ~hung

\* the snake without its last segment
Front(s) == SubSeq(s, 1, Len(s) - 1)

\* C5: game over is absorbing: while gameOver holds, every step that is not
\* the reset (ticks, key presses, swipes, the other controls) keeps snake,
\* food, score and heading, and gameOver stays true.
C5_GameOverAbsorbing ==
    [][(gameOver /\ last' \notin {"reset", "reset_hang"})
        => (gameOver' /\ UNCHANGED <<snake, food, score, direction>>)]_vars

\* a listener ran after the game ended
C5_Witness == gameOver /\ last = "input" /\ isGameStarted /\ ~isPaused

\* C6: the state after reset is the one-cell snake on the start cell,
\* score 0, not started, not paused, not over, heading unset.
C6_ResetRestores ==
    last = "reset" =>
        /\ snake = <<InitHead>>
        /\ score = 0
        /\ ~isGameStarted
        /\ ~isPaused
        /\ ~gameOver
        /\ direction = NoDirection

C6_Witness == last = "reset" /\ touchStart # "null"

\* C7: an effective tick whose candidate head is the food cell and which
\* does not end the game prepends the candidate head to the whole previous
\* snake and adds exactly one to the score.
C7_EatGrows ==
    [][(IsTickStep /\ Effective /\ InGrid(Candidate) /\ Candidate = food
            /\ ~gameOver')
        => (snake' = <<Candidate>> \o snake /\ score' = score + 1)]_vars

C7_Witness == last = "eat" /\ Len(snake) = 3 /\ score = 2 /\ ~gameOver

\* C8: an effective tick that neither eats nor ends the game prepends the
\* candidate head to the previous snake without its last segment; score and
\* food stay.  From the start cell with heading RIGHT: the cell to its right.
C8_MoveTranslates ==
    [][(IsTickStep /\ Effective /\ InGrid(Candidate) /\ Candidate # food
            /\ ~gameOver')
        => (/\ snake' = <<Candidate>> \o Front(snake)
            /\ Len(snake') = Len(snake)
            /\ score' = score
            /\ food' = food)]_vars

C8_Witness ==
    /\ last = "move"
    /\ direction = "RIGHT"
    /\ snake = <<<<InitHead[1] + 1, InitHead[2]>>>>
    /\ score = 0

\* C9: an effective tick whose candidate head is outside the grid on either
\* axis sets gameOver and keeps snake, food and score.
C9_WallEndsGame ==
    [][(IsTickStep /\ Effective /\ ~InGrid(Candidate))
        => (gameOver' /\ UNCHANGED <<snake, food, score>>)]_vars

C9_Witness ==
    /\ last = "wall"
    /\ gameOver
    /\ direction = "RIGHT"
    /\ snake[1][1] = gridSize - 1

\* C10: a tick while paused, not started or with the heading unset changes
\* nothing: snake, food, score, heading and every flag stay.
C10_TickNoop ==
    [][(IsTickStep /\ (isPaused \/ ~isGameStarted \/ direction = NoDirection))
        => UNCHANGED <<snake, food, score, direction, gameOver, isPaused,
                       isGameStarted, touchStart>>]_vars

C10_Witness == last = "noop" /\ isPaused /\ isGameStarted /\ ~gameOver

\* C13: once the game is over no pause control changes isPaused: every
\* step other than the reset (the Space key, the Pause/Resume button
\* included) leaves the flag as it is.
C13_PauseNoopWhenOver ==
    [][(gameOver /\ last' \notin {"reset", "reset_hang"})
        => isPaused' = isPaused]_vars

\* the candidate head is the cell of the last segment and of no other
OnlyOnTail ==
    /\ Len(snake) >= 2
    /\ Candidate = snake[Len(snake)]
    /\ \A i \in 1 .. (Len(snake) - 1) : snake[i] # Candidate

\* C17: an effective tick that does not eat and whose candidate head is
\* only on the cell of the last segment (vacated by this very move) does
\* not end the game: the snake translates.
C17_TailCellFree ==
    [][(IsTickStep /\ Effective /\ InGrid(Candidate) /\ Candidate # food
            /\ OnlyOnTail)
        => (~gameOver' /\ snake' = <<Candidate>> \o Front(snake))]_vars

\* C18: the snake is never empty and no two of its segments share a cell.
C18_NoSelfIntersection ==
    /\ Len(snake) >= 1
    /\ \A i, j \in DOMAIN snake : i # j => snake[i] # snake[j]

\* C19: every segment of the snake and the food cell have both coordinates
\* in [0, gridSize).
C19_AllInGrid ==
    /\ \A i \in DOMAIN snake : InGrid(snake[i])
    /\ InGrid(food)

\* food placed on the far corner while the head is on the near edge
C19_Witness ==
    /\ last = "eat"
    /\ food = <<gridSize - 1, gridSize - 1>>
    /\ snake[1][1] = 0
    /\ Len(snake) >= 3

\* C20: the score is the number of segments beyond the first.
C20_ScoreIsGrowth == score = Len(snake) - 1

\* a grown snake that has since moved without eating
C20_Witness == last = "move" /\ Len(snake) = 3 /\ score = 2 /\ isGameStarted

\* C11: once the game has started, a step given the direction opposite to
\* the heading changes nothing of the game: snake, food, heading, score and
\* the three flags stay.  (touchStart is the start point of the gesture, not
\* game state: the swipe that ends a gesture uses it up.)
C11_ReverseRejected ==
    [][(req' # NoDirection /\ isGameStarted /\ req' = Opposite(direction))
        => UNCHANGED <<snake, food, direction, gameOver, score, isPaused,
                       isGameStarted>>]_vars

\* a running game was just given the reverse of its heading
C11_Witness ==
    /\ last = "input"
    /\ req # NoDirection
    /\ req = Opposite(direction)
    /\ isGameStarted /\ ~gameOver /\ ~isPaused
    /\ Len(snake) >= 2

\* C12: whenever the game has not started, a step given any of the four
\* directions makes it the heading and starts the game.
C12_FirstIntentAccepted ==
    [][(req' # NoDirection /\ ~isGameStarted)
        => (direction' = req' /\ isGameStarted')]_vars

\* C12, amended: whenever the game has not started and is not paused, a
\* step given any of the four directions makes it the heading and starts
\* the game.
C12_FirstIntentAcceptedUnpaused ==
    [][(req' # NoDirection /\ ~isGameStarted /\ ~isPaused)
        => (direction' = req' /\ isGameStarted')]_vars

\* the first intent of a game: nothing has moved or been eaten yet
C12_Witness ==
    /\ last = "input"
    /\ req # NoDirection
    /\ direction = req
    /\ isGameStarted /\ ~isPaused /\ ~gameOver
    /\ snake = <<InitHead>>
    /\ food = InitFood
    /\ score = 0

\* C14: while paused and not over, a step given a direction that is not
\* the reverse of the heading (any direction before the start) makes it
\* the heading.
C14_IntentAcceptedWhilePaused ==
    [][(/\ req' # NoDirection
        /\ isPaused /\ ~gameOver
        /\ (~isGameStarted \/ req' # Opposite(direction)))
        => direction' = req']_vars

\* C14, amended: while paused and not over, a step given a direction
\* leaves the heading and the started flag as they are; the intent is
\* dropped, not kept for later.
C14_IntentDroppedWhilePaused ==
    [][(req' # NoDirection /\ isPaused /\ ~gameOver)
        => UNCHANGED <<direction, isGameStarted, snake, food, score,
                       gameOver, isPaused>>]_vars

\* a paused, running game was just given a direction to the side
C14_Witness ==
    /\ last = "input"
    /\ req # NoDirection
    /\ isPaused /\ ~gameOver /\ isGameStarted
    /\ req # direction
    /\ req # Opposite(direction)

\* the cell next to c in direction d
Ahead(c, d) ==
    IF d = "UP" THEN <<c[1], c[2] - 1>>
    ELSE IF d = "DOWN" THEN <<c[1], c[2] + 1>>
    ELSE IF d = "LEFT" THEN <<c[1] - 1, c[2]>>
    ELSE <<c[1] + 1, c[2]>>

\* C15: intents never queue: every tick that moves the snake, the one after
\* several accepted intents and every later one, puts the head on the cell
\* next to the old head in the direction of the latest accepted intent.
C15_LastIntentWins ==
    [][(IsTickStep /\ snake' # snake)
        => (acc # NoDirection /\ snake'[1] = Ahead(snake[1], acc))]_vars

\* a tick has just moved the snake after two or more accepted intents
C15_Witness ==
    /\ several
    /\ last \in {"move", "eat"}
    /\ pending = 0
    /\ ~gameOver

\* C16: the interval is fixed: a listener or the Pause button running
\* between two ticks leaves the time until the pending tick as it is.
C16_TimerNotRestarted ==
    [][(last' = "input") => timer' = timer]_vars

\* C21: a started game that is neither paused nor over and is left to the
\* interval alone reaches game over, and has reached it once the interval
\* has called moveSnake gridSize times.
C21_LeftAloneEnds ==
    /\ (quiet ~> gameOver)
    /\ [](quiet /\ ticks = gridSize => gameOver)

====
